---- MODULE Spec2Model ----
(***************************************************************************)
(* Model of the preference store of hal-9001 (src/hal/broker.go): the      *)
(* prefs table, Pref.Set / Pref.Get / Pref.get / Pref.Find, the package    *)
(* level wrappers GetPref, GetPrefs, FindPrefs, Get*Prefs and the Prefs    *)
(* filters User / Channel / Broker / Plugin.                               *)
(*                                                                         *)
(* The database is the set of rows of the prefs table.  A query returns    *)
(* its rows in an order the backend chooses (no ORDER BY in the SQL): each *)
(* query action draws one ordering of the table and selects from it.      *)
(* db.Query and db.Exec may fail: each action draws the error as an input. *)
(* rows.Scan reads six text columns that Set always wrote as strings into  *)
(* six string fields, so it does not fail on a table only Set has written; *)
(* the Scan error branches are therefore not drawn.                        *)
(***************************************************************************)
EXTENDS Integers, Sequences, FiniteSets, TLC

VARIABLES db, written, pc, inflight, call

vars == <<db, written, pc, inflight, call>>

\* ------------------------------------------------------------- bounds
\* The largest number of rows the table is let grow to.
MaxRows == 2

\* ------------------------------------------------------------- inputs
Users == {"", "alice"}
Channels == {"", "CORE"}
Brokers == {"", "slack"}
Plugins == {"", "uptime"}
Keys == {"", "tz", "foo"}
Values == {"UTC", "PST"}
Defaults == {"unset", "UTC"}

Scope(u, c, b, p) == [user |-> u, channel |-> c, broker |-> b, plugin |-> p]

AllScopes == [user : Users, channel : Channels, broker : Brokers, plugin : Plugins]

\* The scopes the single client writes to: one plugin, a user of that plugin,
\* and a channel of a broker.
SetScopes ==
    { Scope("", "", "", "uptime"), Scope("alice", "", "", "uptime"),
      Scope("", "CORE", "slack", "") }

SetKeys == {"tz", "foo"}

\* The scopes GetPref and Get are asked for: those written to, and one that
\* never holds a row.
ReadScopes == SetScopes \cup { Scope("", "", "", "") }

\* The scopes and keys the two concurrent writers write to.
ConcScopes == { Scope("alice", "", "", "") }

ConcKeys == {"", "tz", "foo"}

Writers == {"w1", "w2"}

\* ------------------------------------------------------------- data
\* The Go zero value of Pref; Error is "nil" or "err".
ZeroPref ==
    [User |-> "", Plugin |-> "", Broker |-> "", Channel |-> "", Key |-> "",
     Value |-> "", Default |-> "", Success |-> FALSE, Error |-> "nil"]

MkPref(s, key, value, def) ==
    [ZeroPref EXCEPT !.User = s.user, !.Channel = s.channel, !.Broker = s.broker,
                     !.Plugin = s.plugin, !.Key = key, !.Value = value,
                     !.Default = def]

\* A row of the prefs table.
PREFS_TABLE == [user : Users, channel : Channels, broker : Brokers,
                plugin : Plugins, pkey : Keys, value : Values]

\* PRIMARY KEY(user, channel, broker, plugin, pkey)
KeyOf(r) == <<r.user, r.channel, r.broker, r.plugin, r.pkey>>

PrefKey(p) == <<p.User, p.Channel, p.Broker, p.Plugin, p.Key>>

KeyTuples == Users \X Channels \X Brokers \X Plugins \X Keys

NoValue == "<none>"

\* Every ordering of a finite set, as sequences without repetition.
Orderings(S) ==
    { s \in [1..Cardinality(S) -> S] : \A i, j \in 1..Cardinality(S) : i # j => s[i] # s[j] }

\* ------------------------------------------------------------- Pref.get
\* Mutant of getWhere: an empty scope field is left out of the WHERE clause, as
\* an empty key is, and so matches every value of its column.
getWhereWildcard(in, r) ==
    /\ (in.User # "" => r.user = in.User)
    /\ (in.Channel # "" => r.channel = in.Channel)
    /\ (in.Broker # "" => r.broker = in.Broker)
    /\ (in.Plugin # "" => r.plugin = in.Plugin)
    /\ (in.Key # "" => r.pkey = in.Key)

\* The WHERE clause of Pref.get: equality on the four scope columns, and on
\* pkey only when in.Key is not empty.
getWhere(in, r) ==
    /\ r.user = in.User
    /\ r.channel = in.Channel
    /\ r.broker = in.Broker
    /\ r.plugin = in.Plugin
    /\ (in.Key # "" => r.pkey = in.Key)

\* Mutant of getScan: the value column is not scanned, p keeps in.Value.
getScanNoValue(in, r) ==
    [in EXCEPT !.User = r.user, !.Channel = r.channel, !.Broker = r.broker,
               !.Plugin = r.plugin, !.Key = r.pkey]

\* p := *in; rows.Scan(&p.User, &p.Channel, &p.Broker, &p.Plugin, &p.Key, &p.Value)
getScan(in, r) ==
    [in EXCEPT !.User = r.user, !.Channel = r.channel, !.Broker = r.broker,
               !.Plugin = r.plugin, !.Key = r.pkey, !.Value = r.value]

\* Pref.get over the table in the order tbl; err is db.Query's error.
get(in, tbl, err) ==
    IF err THEN <<>>
    ELSE LET rows == SelectSeq(tbl, LAMBDA r : getWhere(in, r))
         IN  [i \in 1..Len(rows) |-> getScan(in, rows[i])]

\* ------------------------------------------------------------- Pref.Get
\* The result of a call that returns one Pref: the Pref, or the panic.
Returned(p) == [ret |-> p, panic |-> ""]

Panicked(msg) == [ret |-> ZeroPref, panic |-> msg]

Get(in, tbl, err) ==
    LET prefs == get(in, tbl, err)
    IN  IF Len(prefs) = 1 THEN Returned(prefs[1])
        ELSE IF Len(prefs) > 1 THEN Panicked("TOO MANY PREFS")
        ELSE Returned([in EXCEPT !.Success = FALSE])

\* ------------------------------------------------------------- GetPref
GetPref(user, broker, channel, plugin, key, def, tbl, err) ==
    LET pref == [ZeroPref EXCEPT !.User = user, !.Channel = channel,
                                 !.Broker = broker, !.Plugin = plugin,
                                 !.Key = key, !.Default = def]
        up == Get(pref, tbl, err)
    IN  IF up.panic # "" THEN up
        ELSE IF up.ret.Success THEN up
        ELSE Returned([pref EXCEPT !.Value = def])

\* ------------------------------------------------------------- Pref.Set
\* Mutant of Upsert: a plain INSERT into a table without the primary key.
UpsertInsertOnly(rows, in) ==
    rows \cup { [user |-> in.User, channel |-> in.Channel, broker |-> in.Broker,
                 plugin |-> in.Plugin, pkey |-> in.Key, value |-> in.Value] }

\* INSERT ... ON DUPLICATE KEY UPDATE: the row of in's key tuple is replaced
\* when there is one, inserted otherwise.
Upsert(rows, in) ==
    LET new == [user |-> in.User, channel |-> in.Channel, broker |-> in.Broker,
                plugin |-> in.Plugin, pkey |-> in.Key, value |-> in.Value]
    IN  { r \in rows : KeyOf(r) # KeyOf(new) } \cup {new}

\* What Set returns when db.Exec failed.
SetFailed(in) == Returned([in EXCEPT !.Success = FALSE, !.Error = "err"])

\* ------------------------------------------------------------- GetPrefs
GetPrefs(user, broker, channel, plugin, tbl, err) ==
    get([ZeroPref EXCEPT !.User = user, !.Broker = broker, !.Channel = channel,
                         !.Plugin = plugin], tbl, err)

GetUserPrefs(user, tbl, err) == get([ZeroPref EXCEPT !.User = user], tbl, err)

GetChannelPrefs(channel, tbl, err) == get([ZeroPref EXCEPT !.Channel = channel], tbl, err)

GetBrokerPrefs(broker, tbl, err) == get([ZeroPref EXCEPT !.Broker = broker], tbl, err)

GetPluginPrefs(plugin, tbl, err) == get([ZeroPref EXCEPT !.Plugin = plugin], tbl, err)

\* ------------------------------------------------------------- Pref.Find
\* Mutant of findFields: the pkey clause is forgotten.
findFieldsNoKey(p) ==
    { f \in { <<"user", p.User>>, <<"channel", p.Channel>>, <<"broker", p.Broker>>,
              <<"plugin", p.Plugin>> } : f[2] # "" }

\* The clauses Find generates, as (column, parameter) pairs: one for each field
\* of p that is not the empty string.
findFields(p) ==
    { f \in { <<"user", p.User>>, <<"channel", p.Channel>>, <<"broker", p.Broker>>,
              <<"plugin", p.Plugin>>, <<"pkey", p.Key>> } : f[2] # "" }

\* Mutant of findWhere: the clauses are joined by AND.
findWhereAnd(p, r) == \A f \in findFields(p) : r[f[1]] = f[2]

\* The generated WHERE: the clauses joined by OR, and no WHERE without clauses.
findWhere(p, r) ==
    LET fields == findFields(p)
    IN  IF fields # {} THEN \E f \in fields : r[f[1]] = f[2] ELSE TRUE

\* row := Pref{}; rows.Scan(...); row.Error = nil; row.Success = true
findScan(r) ==
    [ZeroPref EXCEPT !.User = r.user, !.Channel = r.channel, !.Broker = r.broker,
                     !.Plugin = r.plugin, !.Key = r.pkey, !.Value = r.value,
                     !.Error = "nil", !.Success = TRUE]

Find(p, tbl, err) ==
    IF err THEN <<>>
    ELSE LET rows == SelectSeq(tbl, LAMBDA r : findWhere(p, r))
         IN  [i \in 1..Len(rows) |-> findScan(rows[i])]

FindPrefs(user, broker, channel, plugin, key, tbl, err) ==
    Find([ZeroPref EXCEPT !.User = user, !.Broker = broker, !.Channel = channel,
                          !.Plugin = plugin, !.Key = key], tbl, err)

\* ------------------------------------------------------------- Prefs filters
\* Each filter appends to a new Prefs the elements it keeps, in the order of
\* the range loop; prefs is the receiver as it is after the call.
\* Mutant of User: the filter reuses the receiver's backing array
\* (out := prefs[:0]), so the kept elements overwrite the receiver's first ones.
UserInPlace(prefs, user) ==
    LET out == SelectSeq(prefs, LAMBDA pref : pref.User = user)
    IN  [prefs |-> [i \in 1..Len(prefs) |-> IF i <= Len(out) THEN out[i] ELSE prefs[i]],
         out |-> out]

User(prefs, user) ==
    [prefs |-> prefs, out |-> SelectSeq(prefs, LAMBDA pref : pref.User = user)]

Channel(prefs, channel) ==
    [prefs |-> prefs, out |-> SelectSeq(prefs, LAMBDA pref : pref.Channel = channel)]

Broker(prefs, broker) ==
    [prefs |-> prefs, out |-> SelectSeq(prefs, LAMBDA pref : pref.Broker = broker)]

Plugin(prefs, plugin) ==
    [prefs |-> prefs, out |-> SelectSeq(prefs, LAMBDA pref : pref.Plugin = plugin)]

\* ------------------------------------------------------------- calls
\* The last completed call: its operation, its arguments and what it returned.
NoCall ==
    [op |-> "none", in |-> ZeroPref, arg |-> "", by |-> "", src |-> "", old |-> "",
     qerr |-> FALSE, xerr |-> FALSE, recv |-> <<>>, recvAfter |-> <<>>,
     out |-> <<>>, ret |-> ZeroPref, panic |-> ""]

PrefCall(op, in, by, xerr, qerr, res) ==
    [NoCall EXCEPT !.op = op, !.in = in, !.by = by, !.xerr = xerr, !.qerr = qerr,
                   !.ret = res.ret, !.panic = res.panic]

\* A completed Set of the single client whose upsert succeeded; old is the value its key tuple held
\* before the upsert (NoValue when it held none).
SetCall(in, by, old, qerr, res) ==
    [PrefCall("Set", in, by, FALSE, qerr, res) EXCEPT !.old = old]

\* The result of a call that returns a Prefs.
PrefsCall(op, in, qerr, prefs) ==
    [NoCall EXCEPT !.op = op, !.in = in, !.qerr = qerr, !.out = prefs]

\* The exact-match queries, the filters, and all the operations that return a Prefs.
GetOps == { "GetPrefs", "GetUserPrefs", "GetChannelPrefs", "GetBrokerPrefs", "GetPluginPrefs" }

FilterOps == { "User", "Channel", "Broker", "Plugin" }

PrefsOps == GetOps \cup FilterOps \cup { "FindPrefs" }

Init ==
    /\ db = {}
    /\ written = [t \in KeyTuples |-> NoValue]
    /\ pc = [w \in Writers |-> "idle"]
    /\ inflight = [w \in Writers |-> ZeroPref]
    /\ call = NoCall

\* The client is between two calls.
Idle == call = NoCall

\* The client drops the result of its last call and is ready for the next one.
Discard ==
    /\ call # NoCall
    /\ call' = NoCall
    /\ UNCHANGED <<db, written, pc, inflight>>

\* Pref.Set by a client that is alone: the upsert and the read that follows it.
Set(in, xerr, qerr) ==
    /\ Idle
    /\ IF xerr
       THEN /\ call' = PrefCall("Set", in, "", TRUE, FALSE, SetFailed(in))
            /\ UNCHANGED <<db, written>>
       ELSE /\ Cardinality(Upsert(db, in)) <= MaxRows
            /\ db' = Upsert(db, in)
            /\ written' = [written EXCEPT ![PrefKey(in)] = in.Value]
            /\ call' \in { SetCall(in, "", written[PrefKey(in)], qerr, Get(in, tbl, qerr)) :
                             tbl \in Orderings(Upsert(db, in)) }
    /\ UNCHANGED <<pc, inflight>>

GetPrefCall(s, key, def, qerr) ==
    /\ Idle
    /\ call' \in { PrefCall("GetPref", MkPref(s, key, "", def), "", FALSE, qerr,
                            GetPref(s.user, s.broker, s.channel, s.plugin, key, def, tbl, qerr)) :
                     tbl \in Orderings(db) }
    /\ UNCHANGED <<db, written, pc, inflight>>

GetCall(in, qerr) ==
    /\ Idle
    /\ call' \in { PrefCall("Get", in, "", FALSE, qerr, Get(in, tbl, qerr)) :
                     tbl \in Orderings(db) }
    /\ UNCHANGED <<db, written, pc, inflight>>

GetPrefsCall(s, qerr) ==
    /\ Idle
    /\ call' \in { PrefsCall("GetPrefs", MkPref(s, "", "", ""), qerr,
                             GetPrefs(s.user, s.broker, s.channel, s.plugin, tbl, qerr)) :
                     tbl \in Orderings(db) }
    /\ UNCHANGED <<db, written, pc, inflight>>

GetUserPrefsCall(user, qerr) ==
    /\ Idle
    /\ call' \in { PrefsCall("GetUserPrefs", MkPref(Scope(user, "", "", ""), "", "", ""), qerr,
                             GetUserPrefs(user, tbl, qerr)) : tbl \in Orderings(db) }
    /\ UNCHANGED <<db, written, pc, inflight>>

GetChannelPrefsCall(channel, qerr) ==
    /\ Idle
    /\ call' \in { PrefsCall("GetChannelPrefs", MkPref(Scope("", channel, "", ""), "", "", ""), qerr,
                             GetChannelPrefs(channel, tbl, qerr)) : tbl \in Orderings(db) }
    /\ UNCHANGED <<db, written, pc, inflight>>

GetBrokerPrefsCall(broker, qerr) ==
    /\ Idle
    /\ call' \in { PrefsCall("GetBrokerPrefs", MkPref(Scope("", "", broker, ""), "", "", ""), qerr,
                             GetBrokerPrefs(broker, tbl, qerr)) : tbl \in Orderings(db) }
    /\ UNCHANGED <<db, written, pc, inflight>>

GetPluginPrefsCall(plugin, qerr) ==
    /\ Idle
    /\ call' \in { PrefsCall("GetPluginPrefs", MkPref(Scope("", "", "", plugin), "", "", ""), qerr,
                             GetPluginPrefs(plugin, tbl, qerr)) : tbl \in Orderings(db) }
    /\ UNCHANGED <<db, written, pc, inflight>>

FindPrefsCall(s, key, qerr) ==
    /\ Idle
    /\ call' \in { PrefsCall("FindPrefs", MkPref(s, key, "", ""), qerr,
                             FindPrefs(s.user, s.broker, s.channel, s.plugin, key, tbl, qerr)) :
                     tbl \in Orderings(db) }
    /\ UNCHANGED <<db, written, pc, inflight>>

\* A filter applied to the Prefs the last call returned.  The record keeps
\* where the Prefs came from when that is an exact-match query.
FilterCall(op, res, value) ==
    /\ call.op \in PrefsOps
    /\ call' = [NoCall EXCEPT !.op = op, !.arg = value,
                              !.src = IF call.op \in GetOps THEN call.op ELSE "",
                              !.in = IF call.op \in GetOps THEN call.in ELSE ZeroPref,
                              !.recv = call.out, !.recvAfter = res.prefs, !.out = res.out]
    /\ UNCHANGED <<db, written, pc, inflight>>

UserCall(user) == FilterCall("User", User(call.out, user), user)

ChannelCall(channel) == FilterCall("Channel", Channel(call.out, channel), channel)

BrokerCall(broker) == FilterCall("Broker", Broker(call.out, broker), broker)

PluginCall(plugin) == FilterCall("Plugin", Plugin(call.out, plugin), plugin)

Next ==
    \/ \E s \in SetScopes, k \in SetKeys, v \in Values, xerr, qerr \in BOOLEAN :
         Set(MkPref(s, k, v, ""), xerr, qerr)
    \/ \E s \in ReadScopes, k \in Keys, d \in Defaults, qerr \in BOOLEAN :
         GetPrefCall(s, k, d, qerr)
    \/ \E s \in ReadScopes, k \in Keys, qerr \in BOOLEAN :
         GetCall(MkPref(s, k, "", ""), qerr)
    \/ \E s \in AllScopes, qerr \in BOOLEAN : GetPrefsCall(s, qerr)
    \/ \E user \in Users, qerr \in BOOLEAN : GetUserPrefsCall(user, qerr)
    \/ \E channel \in Channels, qerr \in BOOLEAN : GetChannelPrefsCall(channel, qerr)
    \/ \E broker \in Brokers, qerr \in BOOLEAN : GetBrokerPrefsCall(broker, qerr)
    \/ \E plugin \in Plugins, qerr \in BOOLEAN : GetPluginPrefsCall(plugin, qerr)
    \/ \E s \in AllScopes, k \in Keys, qerr \in BOOLEAN : FindPrefsCall(s, k, qerr)
    \/ \E user \in Users : UserCall(user)
    \/ \E channel \in Channels : ChannelCall(channel)
    \/ \E broker \in Brokers : BrokerCall(broker)
    \/ \E plugin \in Plugins : PluginCall(plugin)
    \/ Discard

Spec == Init /\ [][Next]_vars

\* ------------------------------------------------------------- two writers
\* Pref.Set by one of several concurrent writers: the backend runs each
\* statement atomically, and other writers' statements may come between the
\* upsert and the read.
SetExec(w, in) ==
    /\ pc[w] = "idle"
    /\ Cardinality(Upsert(db, in)) <= MaxRows
    /\ db' = Upsert(db, in)
    /\ written' = [written EXCEPT ![PrefKey(in)] = in.Value]
    /\ pc' = [pc EXCEPT ![w] = "Get"]
    /\ inflight' = [inflight EXCEPT ![w] = in]
    /\ UNCHANGED call

SetExecFailed(w, in) ==
    /\ pc[w] = "idle"
    /\ call' = PrefCall("Set", in, w, TRUE, FALSE, SetFailed(in))
    /\ UNCHANGED <<db, written, pc, inflight>>

SetGet(w, qerr) ==
    /\ pc[w] = "Get"
    /\ call' \in { PrefCall("Set", inflight[w], w, FALSE, qerr, Get(inflight[w], tbl, qerr)) :
                     tbl \in Orderings(db) }
    /\ pc' = [pc EXCEPT ![w] = "idle"]
    /\ inflight' = [inflight EXCEPT ![w] = ZeroPref]
    /\ UNCHANGED <<db, written>>

NextConc ==
    \/ \E w \in Writers, s \in ConcScopes, k \in ConcKeys, v \in Values :
         SetExec(w, MkPref(s, k, v, ""))
    \/ \E w \in Writers, s \in ConcScopes, k \in ConcKeys, v \in Values :
         SetExecFailed(w, MkPref(s, k, v, ""))
    \/ \E w \in Writers, qerr \in BOOLEAN : SetGet(w, qerr)

SpecConc == Init /\ [][NextConc]_vars

\* ------------------------------------------------------------- properties
\* The six columns of the row a Pref was read from, and the rows of a Prefs.
RowOf(p) ==
    [user |-> p.User, channel |-> p.Channel, broker |-> p.Broker, plugin |-> p.Plugin,
     pkey |-> p.Key, value |-> p.Value]

Rows(prefs) == { RowOf(prefs[i]) : i \in 1..Len(prefs) }

\* No two rows of the table have the same five-column key.
PrimaryKey(rows) == \A r1, r2 \in rows : KeyOf(r1) = KeyOf(r2) => r1 = r2

\* The row that holds value v for key tuple t.
RowFor(t, v) ==
    [user |-> t[1], channel |-> t[2], broker |-> t[3], plugin |-> t[4], pkey |-> t[5],
     value |-> v]

\* C1: GetPref of a scope and a non-empty key whose last successful Set wrote V
\* returns Value = V and Success = true, whatever the default.
C1_GetPrefAfterSet ==
    ( /\ call.op = "GetPref"
      /\ ~call.qerr
      /\ call.in.Key # ""
      /\ written[PrefKey(call.in)] # NoValue )
    => ( /\ call.panic = ""
         /\ call.ret.Value = written[PrefKey(call.in)]
         /\ call.ret.Success )

\* C2: GetPref of a key tuple that has no row returns the default with
\* Success = false and the scope fields and key it was given, whatever other
\* rows the table holds.
C2_GetPrefMissReturnsDefault ==
    ( /\ call.op = "GetPref"
      /\ \A r \in db : KeyOf(r) # PrefKey(call.in) )
    => ( /\ call.panic = ""
         /\ call.ret = [call.in EXCEPT !.Value = call.in.Default, !.Success = FALSE] )

\* C3: the table holds exactly one row for every key tuple a Set has written,
\* with the value of the most recent successful Set to it, and no other row.
C3_OneRowPerKeyLastValue ==
    /\ PrimaryKey(db)
    /\ db = { RowFor(t, written[t]) : t \in { k \in KeyTuples : written[k] # NoValue } }

\* A Set has overwritten the value of a key tuple while another tuple has a row.
C3_Overwritten ==
    /\ call.op = "Set"
    /\ ~call.xerr
    /\ call.old \notin {NoValue, call.in.Value}
    /\ Cardinality(db) = 2
    /\ Cardinality({ r \in db : KeyOf(r) = PrefKey(call.in) }) = 1

\* C4: Get raises TOO MANY PREFS only when two rows share a five-column key;
\* while the primary key holds, Get on any Pref, an empty Key included, does not.
C4_PanicOnlyOnDuplicateKey ==
    (call.op = "Get" /\ PrimaryKey(db)) => call.panic = ""

C6_GetQueryErrorSetsError ==
    (call.op = "Get" /\ call.qerr)
    => (~call.ret.Success /\ call.ret.Error # "nil")

\* C7: GetPrefs and the four Get*Prefs return exactly the rows whose user,
\* channel, broker and plugin equal the four values asked for, an empty value
\* matching only an empty column, with every key; a failed query returns none.
C7_GetPrefsExactMatch ==
    call.op \in GetOps
    => LET match == { r \in db : /\ r.user = call.in.User
                                 /\ r.channel = call.in.Channel
                                 /\ r.broker = call.in.Broker
                                 /\ r.plugin = call.in.Plugin }
       IN  IF call.qerr THEN call.out = <<>>
           ELSE /\ Rows(call.out) = match
                /\ Len(call.out) = Cardinality(match)

\* GetPrefs("", "", "", "uptime") has returned the row of plugin uptime and not
\* the row of user alice and plugin uptime.
C7_EmptyUserMatchesOnlyEmpty ==
    /\ call.op = "GetPrefs"
    /\ ~call.qerr
    /\ call.in = MkPref(Scope("", "", "", "uptime"), "", "", "")
    /\ \E r \in db : r.user = "alice" /\ r.plugin = "uptime"
    /\ Len(call.out) = 1
    /\ call.out[1].User = ""

FindQueries == { MkPref(s, k, "", "") : s \in AllScopes, k \in Keys }

Supplied(q) ==
    { f \in { <<"user", q.User>>, <<"channel", q.Channel>>, <<"broker", q.Broker>>,
              <<"plugin", q.Plugin>>, <<"pkey", q.Key>> } : f[2] # "" }

\* q2 supplies the fields of q1 with the same values, and more.
Extends(q2, q1) ==
    Supplied(q1) # {} /\ Supplied(q1) \subseteq Supplied(q2) /\ Supplied(q1) # Supplied(q2)

\* What FindPrefs returns for q over the table as it is.
FindResult(q) ==
    UNION { Rows(FindPrefs(q.User, q.Broker, q.Channel, q.Plugin, q.Key, tbl, FALSE)) :
              tbl \in Orderings(db) }

\* C9: the rows FindPrefs returns contain the rows of every query that
\* supplies fewer of the same non-empty fields, over the same table.
C9_FindMonotone ==
    (call.op = "FindPrefs" /\ ~call.qerr)
    => \A q1 \in FindQueries :
         Extends(call.in, q1) => FindResult(q1) \subseteq Rows(call.out)

\* FindPrefs has returned more rows than a query with fewer fields returns.
C9_MoreFieldsMoreRows ==
    /\ call.op = "FindPrefs"
    /\ ~call.qerr
    /\ \E q1 \in FindQueries :
         /\ Extends(call.in, q1)
         /\ FindResult(q1) # {}
         /\ FindResult(q1) # Rows(call.out)

\* The field a filter compares.
FilterField(op, pref) ==
    CASE op = "User" -> pref.User
      [] op = "Channel" -> pref.Channel
      [] op = "Broker" -> pref.Broker
      [] op = "Plugin" -> pref.Plugin

\* C10: a filter returns the records of its receiver whose field equals the
\* value, in the receiver's order, and leaves the receiver as it was; User(U)
\* on what an exact-match query for user U returned keeps every record.
C10_FilterSubsequence ==
    call.op \in FilterOps
    => LET kept == { i \in 1..Len(call.recv) : FilterField(call.op, call.recv[i]) = call.arg }
       IN  /\ call.recvAfter = call.recv
           /\ Len(call.out) = Cardinality(kept)
           /\ \A i \in kept : call.out[Cardinality({ j \in kept : j <= i })] = call.recv[i]
           /\ ( /\ call.op = "User"
                /\ call.src \in {"GetPrefs", "GetUserPrefs"}
                /\ call.arg = call.in.User )
              => call.out = call.recv

\* User has dropped the first of two records and kept the second.
C10_DroppedOneKeptOne ==
    /\ call.op = "User"
    /\ Len(call.recv) = 2
    /\ Len(call.out) = 1
    /\ call.out[1] = call.recv[2]

====
